---- MODULE Spec2Model ----
(***************************************************************************)
(* State-machine model of ts/components/ContextMenu.tsx, and of the        *)
(* sticker-pack row component StickerManagerPackRow.                       *)
(*                                                                         *)
(* Two ContextMenu instances share the module-level variable               *)
(* closeCurrentOpenContextMenu.  Every DOM event is handled to completion  *)
(* (React batches the setState calls of one handler and commits them       *)
(* before the next discrete event), so one event is one action: the        *)
(* handler, the commit of its state updates and the effects of that        *)
(* commit.  Indices are 0-based as in the source; the option at 0-based    *)
(* index i is menuOptions[m][i + 1].                                       *)
(***************************************************************************)
EXTENDS Integers, Sequences, FiniteSets, TLC

\* Largest number of options a menu is given.
MaxOptions == 2
\* ArrowUp on an empty menu decrements focusedIndex without limit; the
\* model follows it down to -MaxUnder.
MaxUnder == 2

\* Longest option sequence whose rendering (dividers) is examined.
MaxRendered == 5

Menus == {"A", "B"}

\* `undefined` for the close-callback slot.
NoMenu == "none"

\* `undefined` for number | undefined; a defined number i is Some(i).
Undefined == <<>>
Some(i) == <<i>>
IsDefined(f) == f # Undefined
Val(f) == f[1]

Keys == {"Enter", "Space", "ArrowDown", "Tab", "ArrowUp", "Escape", "a"}

\* Pointer positions and trigger boxes are drawn from two sample points;
\* they have x # y and differ from (0, 0), the anchor a fresh instance
\* starts with.
Points == {[x |-> 10, y |-> 20], [x |-> 50, y |-> 60]}

\* generateVirtualElement(x, y): the zero-size rectangle at (x, y).
generateVirtualElementSwapped(x, y) == [x |-> y, y |-> x]

generateVirtualElement(x, y) == [x |-> x, y |-> y]

\* The option sequences a caller supplies: option k (1-based) carries the
\* value 100 + k, so that the values of one sequence are pairwise distinct.
\* `undefined` for the optional group of an option.
NoGroup == "undefined"
Groups == {"g1", "g2", NoGroup}

MakeOption(k) == [value |-> 100 + k,
                  group |-> IF k % 3 = 0 THEN NoGroup ELSE IF k % 3 = 1 THEN "g1" ELSE "g2"]
MakeOptions(n) == [k \in 1 .. n |-> MakeOption(k)]
OptionSeqs == {MakeOptions(n) : n \in 0 .. MaxOptions}

\* Option sequences with every assignment of groups, up to MaxRendered long.
GroupedSeqs ==
  UNION {{[k \in 1 .. n |-> [value |-> 100 + k, group |-> g[k]]] :
            g \in [1 .. n -> Groups]} : n \in 0 .. MaxRendered}

\* The sticker packs shown as rows of the sticker manager.
Rows == {"p1", "p2"}

VARIABLES
  isMenuShowing,      \* [Menus -> BOOLEAN]   useState, line 84
  focusedIndex,       \* [Menus -> Undefined or Some(i)]  useState, line 85
  virtualElement,     \* [Menus -> Points]    useRef, line 92: the anchor
  menuOptions,        \* [Menus -> OptionSeqs]  the menuOptions prop
  closeCurrentOpenContextMenu,  \* NoMenu, or the menu whose close callback is registered
  notified,           \* [Menus -> BOOLEAN]   last value passed to onMenuShowingChanged
  optionElements,     \* [Menus -> Seq]  the elements rendered for menuOptions
  calls,              \* the option onClick invocations made by the latest event
  lastEvent,          \* the latest event and its inputs
  \* StickerManagerPackRow, one instance per pack
  pack,               \* [Rows -> [id, key, isBlessed, status]]  the pack prop
  supplied,           \* [Rows -> Callbacks]  the optional callback props supplied
  uninstalling,       \* [Rows -> BOOLEAN]   useState, part_000 line 29
  rowCalls,           \* the install / uninstall callbacks invoked by the latest row event
  lastRowEvent        \* the latest row event

menuVars == <<isMenuShowing, focusedIndex, virtualElement, menuOptions,
              optionElements, closeCurrentOpenContextMenu, notified, calls,
              lastEvent>>

rowVars == <<pack, supplied, uninstalling, rowCalls, lastRowEvent>>

vars == <<menuVars, rowVars>>

Origin == generateVirtualElement(0, 0)

\* The point recorded for an event that reads neither pointer nor box.
NoBox == Origin

\* The record of an event: its inputs (key, option index, pointer position
\* or trigger box, whether referenceElement was set), whether it raised, and
\* what it found: the instance's isMenuShowing and the registered close
\* callback before the event, and the focusedIndex the handler read
\* (Undefined also for the handlers that do not read it).
Event(type, m, key, index, point, threw) ==
  [type |-> type, menu |-> m, key |-> key, index |-> index,
   point |-> point, threw |-> threw,
   attached |-> FALSE,
   wasShowing |-> isMenuShowing[m],
   focusRead |-> Undefined,
   prevSlot |-> closeCurrentOpenContextMenu]

NumOptions(m) == Len(menuOptions[m])

InRange(i, n) == i >= 0 /\ i < n

----------------------------------------------------------------------------
\* Rendering of the options (the loop over menuOptions.entries())

\* `previous && previous.group !== option.group` for the option at 1-based
\* position k: previous is menuOptions[index - 1], undefined for the first.
needsDividerDefinedOnly(opts, k) ==
  /\ k > 1
  /\ opts[k - 1].group # NoGroup /\ opts[k].group # NoGroup
  /\ opts[k - 1].group # opts[k].group

needsDivider(opts, k) == k > 1 /\ opts[k - 1].group # opts[k].group

\* optionElements: for each option in order, a divider if needed, then the
\* option's button.  `index` is the option's 0-based index.
RECURSIVE pushElements(_, _)
pushElements(opts, k) ==
  IF k > Len(opts) THEN <<>>
  ELSE (IF needsDivider(opts, k)
          THEN << [kind |-> "divider", index |-> k - 1] >> ELSE <<>>)
       \o << [kind |-> "option", index |-> k - 1] >>
       \o pushElements(opts, k + 1)

renderOptionElements(opts) == pushElements(opts, 1)

----------------------------------------------------------------------------
\* Effects of a commit

\* useEffect(..., [isMenuShowing, onMenuShowingChanged]): runs for the
\* instances whose isMenuShowing changed in the commit.
FlushEffectsSkipClose(old, new, seen) ==
  [m \in Menus |-> IF old[m] # new[m] /\ new[m] THEN new[m] ELSE seen[m]]

FlushEffects(old, new, seen) ==
  [m \in Menus |-> IF old[m] # new[m] THEN new[m] ELSE seen[m]]

\* closeCurrentOpenContextMenu?.() : the registered callback is
\* () => setIsMenuShowing(false) of the instance that registered it.
CloseCurrentNoop(showing, cur) == showing

CloseCurrent(showing, cur) ==
  IF cur = NoMenu THEN showing ELSE [showing EXCEPT ![cur] = FALSE]

\* Commit of one handler's updates to isMenuShowing, with its effects.
Commit(newShowing) ==
  /\ isMenuShowing' = newShowing
  /\ notified' = FlushEffects(isMenuShowing, newShowing, notified)

----------------------------------------------------------------------------
\* Init: both instances mounted with the option sequences of one of the
\* assignments in F.  The mount effect has notified `false`.
MenuInit(F) ==
  /\ isMenuShowing = [m \in Menus |-> FALSE]
  /\ focusedIndex = [m \in Menus |-> Undefined]
  /\ virtualElement = [m \in Menus |-> Origin]
  /\ menuOptions \in F
  /\ optionElements = [m \in Menus |-> renderOptionElements(menuOptions[m])]
  /\ closeCurrentOpenContextMenu = NoMenu
  /\ notified = [m \in Menus |-> FALSE]
  /\ calls = <<>>
  /\ lastEvent = [type |-> "mount", menu |-> NoMenu, key |-> "", index |-> -1,
                  point |-> Origin, threw |-> FALSE, attached |-> FALSE,
                  wasShowing |-> FALSE, focusRead |-> Undefined,
                  prevSlot |-> NoMenu]

\* The rows mounted with packs from P and callback props from C;
\* useState(false) for uninstalling.
KeyOf(r) == IF r = "p1" THEN "k1" ELSE "k2"
Packs(r) == [id : {r}, key : {KeyOf(r)}, isBlessed : BOOLEAN,
             status : {"installed", "downloaded"}]
Callbacks == SUBSET {"installStickerPack", "uninstallStickerPack"}

RowInit(P, C) ==
  /\ pack \in {f \in [Rows -> UNION {Packs(r) : r \in Rows}] :
                 \A r \in Rows : f[r] \in Packs(r) /\ f[r] \in P}
  /\ supplied \in [Rows -> C]
  /\ uninstalling = [r \in Rows |-> FALSE]
  /\ rowCalls = <<>>
  /\ lastRowEvent = [type |-> "mount", row |-> "none"]

\* The packs and callbacks of the rows while the menus are examined.
PlainPacks == {q \in UNION {Packs(r) : r \in Rows} :
                 ~q.isBlessed /\ q.status = "installed"}

Init ==
  /\ MenuInit([Menus -> OptionSeqs])
  /\ RowInit(PlainPacks, {{"installStickerPack", "uninstallStickerPack"}})

----------------------------------------------------------------------------
handleClickToggles(m, p) ==
  /\ closeCurrentOpenContextMenu' = IF isMenuShowing[m] THEN NoMenu ELSE m
  /\ virtualElement' = [virtualElement EXCEPT ![m] = generateVirtualElement(p.x, p.y)]
  /\ Commit([CloseCurrent(isMenuShowing, closeCurrentOpenContextMenu)
               EXCEPT ![m] = ~isMenuShowing[m]])
  /\ calls' = <<>>
  /\ lastEvent' = Event("click", m, "", -1, p, FALSE)
  /\ UNCHANGED <<focusedIndex, menuOptions, optionElements, rowVars>>

\* handleClick (onClick / onContextMenu of the trigger, openMenu)
handleClick(m, p) ==
  /\ closeCurrentOpenContextMenu' = m
  /\ virtualElement' = [virtualElement EXCEPT ![m] = generateVirtualElement(p.x, p.y)]
  /\ Commit([CloseCurrent(isMenuShowing, closeCurrentOpenContextMenu) EXCEPT ![m] = TRUE])
  /\ calls' = <<>>
  /\ lastEvent' = Event("click", m, "", -1, p, FALSE)
  /\ UNCHANGED <<focusedIndex, menuOptions, optionElements, rowVars>>

----------------------------------------------------------------------------
\* handleKeyDown (onKeyDown of the trigger), one operator per branch

\* `focusedIndex || 0`
OrZero(f) == IF IsDefined(f) /\ Val(f) # 0 THEN Val(f) ELSE 0

NextDownFromStart(f, n) ==
  IF ~IsDefined(f) THEN 0
  ELSE IF Val(f) >= n - 1 THEN 0 ELSE Val(f) + 1

\* ArrowDown / Tab: the next index
NextDown(f, n) == IF OrZero(f) >= n - 1 THEN 0 ELSE OrZero(f) + 1

\* ArrowUp: the next index
NextUp(f, n) == IF OrZero(f) = 0 THEN n - 1 ELSE OrZero(f) - 1

KeyOpenFallsThrough(m, key, box, attached) ==
  /\ key \in {"Enter", "Space"}
  /\ ~isMenuShowing[m]
  /\ closeCurrentOpenContextMenu' = IF key = "Enter" THEN NoMenu ELSE m
  /\ virtualElement' =
       IF attached
         THEN [virtualElement EXCEPT ![m] = generateVirtualElement(box.x, box.y)]
         ELSE virtualElement
  /\ Commit([CloseCurrent(isMenuShowing, closeCurrentOpenContextMenu)
               EXCEPT ![m] = (key # "Enter")])
  /\ focusedIndex' = [focusedIndex EXCEPT ![m] = Some(0)]
  /\ calls' = IF key = "Enter" /\ NumOptions(m) > 0
                THEN << [menu |-> m, index |-> 0, value |-> menuOptions[m][1].value] >>
                ELSE <<>>
  /\ lastEvent' = [Event("key", m, key, -1, box, FALSE) EXCEPT !.attached = attached]
  /\ UNCHANGED <<menuOptions, optionElements, rowVars>>

\* Enter or Space while the menu is not showing: open by keyboard, then
\* return at `if (!isMenuShowing) return` (the handler's isMenuShowing is
\* the value of the render it was created in).
\* referenceElement (useState, line 94) is written only by React's ref
\* callback, given to the trigger as `ref`: `attached` is whether it holds
\* the trigger element when the key arrives (a custom trigger rendered by
\* `children` need not attach it), and `box` is the trigger's bounding box.
KeyOpen(m, key, box, attached) ==
  /\ key \in {"Enter", "Space"}
  /\ ~isMenuShowing[m]
  /\ closeCurrentOpenContextMenu' = m
  /\ virtualElement' =
       IF attached
         THEN [virtualElement EXCEPT ![m] = generateVirtualElement(box.x, box.y)]
         ELSE virtualElement
  /\ Commit([CloseCurrent(isMenuShowing, closeCurrentOpenContextMenu) EXCEPT ![m] = TRUE])
  /\ focusedIndex' = [focusedIndex EXCEPT ![m] = Some(0)]
  /\ calls' = <<>>
  /\ lastEvent' = [Event("key", m, key, -1, box, FALSE) EXCEPT !.attached = attached]
  /\ UNCHANGED <<menuOptions, optionElements, rowVars>>

KeyClosedFallsThrough(m, key) ==
  /\ key \notin {"Enter", "Space"}
  /\ ~isMenuShowing[m]
  /\ closeCurrentOpenContextMenu' =
       IF key = "Escape" THEN NoMenu ELSE closeCurrentOpenContextMenu
  /\ calls' = <<>>
  /\ lastEvent' = Event("key", m, key, -1, NoBox, FALSE)
  /\ UNCHANGED <<isMenuShowing, focusedIndex, virtualElement,
                 menuOptions, optionElements, rowVars, notified>>

\* Any other key while the menu is not showing: early return.
KeyClosed(m, key) ==
  /\ key \notin {"Enter", "Space"}
  /\ ~isMenuShowing[m]
  /\ calls' = <<>>
  /\ lastEvent' = Event("key", m, key, -1, NoBox, FALSE)
  /\ UNCHANGED <<isMenuShowing, focusedIndex, virtualElement,
                 menuOptions, optionElements, rowVars, closeCurrentOpenContextMenu, notified>>

KeyArrowDown(m, key) ==
  /\ key \in {"ArrowDown", "Tab"}
  /\ isMenuShowing[m]
  /\ focusedIndex' = [focusedIndex EXCEPT
                        ![m] = Some(NextDown(focusedIndex[m], NumOptions(m)))]
  /\ calls' = <<>>
  /\ lastEvent' = [Event("key", m, key, -1, NoBox, FALSE)
                    EXCEPT !.focusRead = focusedIndex[m]]
  /\ UNCHANGED <<isMenuShowing, virtualElement, menuOptions, optionElements, rowVars,
                 closeCurrentOpenContextMenu, notified>>

KeyArrowUp(m, key) ==
  /\ key = "ArrowUp"
  /\ isMenuShowing[m]
  /\ NextUp(focusedIndex[m], NumOptions(m)) >= -MaxUnder
  /\ focusedIndex' = [focusedIndex EXCEPT
                        ![m] = Some(NextUp(focusedIndex[m], NumOptions(m)))]
  /\ calls' = <<>>
  /\ lastEvent' = [Event("key", m, key, -1, NoBox, FALSE)
                    EXCEPT !.focusRead = focusedIndex[m]]
  /\ UNCHANGED <<isMenuShowing, virtualElement, menuOptions, optionElements, rowVars,
                 closeCurrentOpenContextMenu, notified>>

\* Enter while showing.  onClickThrows: the option's onClick raises.
\* menuOptions[focusedIndex] is undefined when focusedIndex is out of
\* range, and `focusedOption.onClick` is then a TypeError.  An exception
\* leaves the handler before setIsMenuShowing(false).
KeyEnter(m, key, onClickThrows) ==
  /\ key = "Enter"
  /\ isMenuShowing[m]
  /\ LET f == focusedIndex[m]
         invoked == IsDefined(f) /\ InRange(Val(f), NumOptions(m))
         threw == IsDefined(f) /\ (~invoked \/ onClickThrows)
     IN /\ (~invoked => ~onClickThrows)
        /\ calls' = IF invoked
                      THEN << [menu |-> m, index |-> Val(f),
                               value |-> menuOptions[m][Val(f) + 1].value] >>
                      ELSE <<>>
        /\ lastEvent' = [Event("key", m, key, -1, NoBox, threw)
                           EXCEPT !.focusRead = f]
        /\ IF threw
             THEN UNCHANGED <<isMenuShowing, notified, closeCurrentOpenContextMenu>>
             ELSE /\ Commit([isMenuShowing EXCEPT ![m] = FALSE])
                  /\ closeCurrentOpenContextMenu' = NoMenu
  /\ UNCHANGED <<focusedIndex, virtualElement, menuOptions, optionElements, rowVars>>

KeyEscapeIgnored(m, key) ==
  /\ key = "Escape"
  /\ isMenuShowing[m]
  /\ calls' = <<>>
  /\ lastEvent' = Event("key", m, key, -1, NoBox, FALSE)
  /\ UNCHANGED <<isMenuShowing, notified, closeCurrentOpenContextMenu,
                 focusedIndex, virtualElement, menuOptions, optionElements, rowVars>>

KeyEscape(m, key) ==
  /\ key = "Escape"
  /\ isMenuShowing[m]
  /\ Commit([isMenuShowing EXCEPT ![m] = FALSE])
  /\ closeCurrentOpenContextMenu' = NoMenu
  /\ calls' = <<>>
  /\ lastEvent' = Event("key", m, key, -1, NoBox, FALSE)
  /\ UNCHANGED <<focusedIndex, virtualElement, menuOptions, optionElements, rowVars>>

KeyOtherCloses(m, key) ==
  /\ key \notin {"ArrowDown", "Tab", "ArrowUp", "Enter", "Escape"}
  /\ isMenuShowing[m]
  /\ Commit([isMenuShowing EXCEPT ![m] = FALSE])
  /\ closeCurrentOpenContextMenu' = NoMenu
  /\ calls' = <<>>
  /\ lastEvent' = Event("key", m, key, -1, NoBox, FALSE)
  /\ UNCHANGED <<focusedIndex, virtualElement, menuOptions, optionElements, rowVars>>

\* A key no branch handles, while showing (Space included).
KeyOther(m, key) ==
  /\ key \notin {"ArrowDown", "Tab", "ArrowUp", "Enter", "Escape"}
  /\ isMenuShowing[m]
  /\ calls' = <<>>
  /\ lastEvent' = Event("key", m, key, -1, NoBox, FALSE)
  /\ UNCHANGED <<isMenuShowing, focusedIndex, virtualElement,
                 menuOptions, optionElements, rowVars, closeCurrentOpenContextMenu, notified>>

----------------------------------------------------------------------------
\* onElementClick of option i (rendered only while the menu is showing)
onElementClickKeepsSlot(m, i, onClickThrows) ==
  /\ isMenuShowing[m]
  /\ InRange(i, NumOptions(m))
  /\ calls' = << [menu |-> m, index |-> i, value |-> menuOptions[m][i + 1].value] >>
  /\ lastEvent' = Event("option", m, "", i, Origin, onClickThrows)
  /\ IF onClickThrows
       THEN UNCHANGED <<isMenuShowing, notified>>
       ELSE Commit([isMenuShowing EXCEPT ![m] = FALSE])
  /\ UNCHANGED <<closeCurrentOpenContextMenu, focusedIndex, virtualElement,
                 menuOptions, optionElements, rowVars>>

onElementClick(m, i, onClickThrows) ==
  /\ isMenuShowing[m]
  /\ InRange(i, NumOptions(m))
  /\ calls' = << [menu |-> m, index |-> i, value |-> menuOptions[m][i + 1].value] >>
  /\ lastEvent' = Event("option", m, "", i, Origin, onClickThrows)
  /\ IF onClickThrows
       THEN UNCHANGED <<isMenuShowing, notified, closeCurrentOpenContextMenu>>
       ELSE /\ Commit([isMenuShowing EXCEPT ![m] = FALSE])
            /\ closeCurrentOpenContextMenu' = NoMenu
  /\ UNCHANGED <<focusedIndex, virtualElement, menuOptions, optionElements, rowVars>>

----------------------------------------------------------------------------
\* The callback given to handleOutsideClick; it is registered by the
\* effect only while isMenuShowing.
OutsideClickKeepsSlot(m) ==
  /\ isMenuShowing[m]
  /\ Commit([isMenuShowing EXCEPT ![m] = FALSE])
  /\ calls' = <<>>
  /\ lastEvent' = Event("outside", m, "", -1, Origin, FALSE)
  /\ UNCHANGED <<closeCurrentOpenContextMenu, focusedIndex, virtualElement,
                 menuOptions, optionElements, rowVars>>

OutsideClick(m) ==
  /\ isMenuShowing[m]
  /\ Commit([isMenuShowing EXCEPT ![m] = FALSE])
  /\ closeCurrentOpenContextMenu' = NoMenu
  /\ calls' = <<>>
  /\ lastEvent' = Event("outside", m, "", -1, Origin, FALSE)
  /\ UNCHANGED <<focusedIndex, virtualElement, menuOptions, optionElements, rowVars>>

----------------------------------------------------------------------------
\* The caller re-renders the instance with another menuOptions prop.
SetMenuOptions(m, opts) ==
  /\ opts # menuOptions[m]
  /\ menuOptions' = [menuOptions EXCEPT ![m] = opts]
  /\ optionElements' = [optionElements EXCEPT ![m] = renderOptionElements(opts)]
  /\ calls' = <<>>
  /\ lastEvent' = Event("props", m, "", -1, Origin, FALSE)
  /\ UNCHANGED <<isMenuShowing, focusedIndex, virtualElement,
                 closeCurrentOpenContextMenu, notified, rowVars>>

----------------------------------------------------------------------------
\* A primary click on the trigger when the caller supplied onClick:
\* `onClick || handleClick` is the caller's handler, which gets the event
\* and has no access to the instance's state.  (Without the prop the click
\* is handleClick; onContextMenu is always handleClick.)
callerOnClickAlsoOpens(m) ==
  /\ closeCurrentOpenContextMenu' = m
  /\ Commit([CloseCurrent(isMenuShowing, closeCurrentOpenContextMenu) EXCEPT ![m] = TRUE])
  /\ calls' = <<>>
  /\ lastEvent' = Event("onClick", m, "", -1, NoBox, FALSE)
  /\ UNCHANGED <<focusedIndex, virtualElement, menuOptions, optionElements, rowVars>>

callerOnClick(m) ==
  /\ calls' = <<>>
  /\ lastEvent' = Event("onClick", m, "", -1, NoBox, FALSE)
  /\ UNCHANGED <<isMenuShowing, focusedIndex, virtualElement, menuOptions,
                 optionElements, closeCurrentOpenContextMenu, notified, rowVars>>

----------------------------------------------------------------------------
\* handleKeyDown is the disjunction of its branches: the key and
\* isMenuShowing select exactly one of them.
Next ==
  \/ \E m \in Menus, p \in Points : handleClick(m, p)
  \/ \E m \in Menus, key \in Keys, box \in Points, attached \in BOOLEAN :
       KeyOpen(m, key, box, attached)
  \/ \E m \in Menus, key \in Keys : KeyClosed(m, key)
  \/ \E m \in Menus, key \in Keys : KeyArrowDown(m, key)
  \/ \E m \in Menus, key \in Keys : KeyArrowUp(m, key)
  \/ \E m \in Menus, key \in Keys, t \in BOOLEAN : KeyEnter(m, key, t)
  \/ \E m \in Menus, key \in Keys : KeyEscape(m, key)
  \/ \E m \in Menus, key \in Keys : KeyOther(m, key)
  \/ \E m \in Menus, i \in 0 .. MaxOptions - 1, t \in BOOLEAN : onElementClick(m, i, t)
  \/ \E m \in Menus : OutsideClick(m)
  \/ \E m \in Menus, opts \in OptionSeqs : SetMenuOptions(m, opts)
  \/ \E m \in Menus : callerOnClick(m)

Spec == Init /\ [][Next]_vars

----------------------------------------------------------------------------
\* The rendering alone: instance A is rendered and re-rendered with every
\* option sequence of GroupedSeqs.
InitRendering ==
  /\ MenuInit({[m \in Menus |-> IF m = "A" THEN q ELSE <<>>] : q \in GroupedSeqs})
  /\ RowInit(PlainPacks, {{"installStickerPack", "uninstallStickerPack"}})

NextRendering == \E opts \in GroupedSeqs : SetMenuOptions("A", opts)

SpecRendering == InitRendering /\ [][NextRendering]_vars

----------------------------------------------------------------------------
\* StickerManagerPackRow

RowCall(fn, r) == [fn |-> fn, packId |-> pack[r].id, packKey |-> pack[r].key]

\* handleInstall: the Install button, rendered unless status is 'installed'
handleInstall(r) ==
  /\ pack[r].status # "installed"
  /\ rowCalls' = IF "installStickerPack" \in supplied[r]
                   THEN << RowCall("installStickerPack", r) >> ELSE <<>>
  /\ lastRowEvent' = [type |-> "install", row |-> r]
  /\ UNCHANGED <<pack, supplied, uninstalling, menuVars>>

\* handleUninstall: the Uninstall button, rendered when status is 'installed'
handleUninstallDirect(r) ==
  /\ pack[r].status = "installed"
  /\ IF "uninstallStickerPack" \in supplied[r]
       THEN /\ rowCalls' = << RowCall("uninstallStickerPack", r) >>
            /\ UNCHANGED uninstalling
       ELSE /\ uninstalling' = [uninstalling EXCEPT ![r] = TRUE]
            /\ rowCalls' = <<>>
  /\ lastRowEvent' = [type |-> "uninstall", row |-> r]
  /\ UNCHANGED <<pack, supplied, menuVars>>

handleUninstall(r) ==
  /\ pack[r].status = "installed"
  /\ IF pack[r].isBlessed /\ "uninstallStickerPack" \in supplied[r]
       THEN /\ rowCalls' = << RowCall("uninstallStickerPack", r) >>
            /\ UNCHANGED uninstalling
       ELSE /\ uninstalling' = [uninstalling EXCEPT ![r] = TRUE]
            /\ rowCalls' = <<>>
  /\ lastRowEvent' = [type |-> "uninstall", row |-> r]
  /\ UNCHANGED <<pack, supplied, menuVars>>

\* handleConfirmUninstall: the action of the ConfirmationDialog, which is
\* rendered while uninstalling
handleConfirmUninstall(r) ==
  /\ uninstalling[r]
  /\ uninstalling' = [uninstalling EXCEPT ![r] = FALSE]
  /\ rowCalls' = IF "uninstallStickerPack" \in supplied[r]
                   THEN << RowCall("uninstallStickerPack", r) >> ELSE <<>>
  /\ lastRowEvent' = [type |-> "confirm", row |-> r]
  /\ UNCHANGED <<pack, supplied, menuVars>>

\* clearUninstalling: onClose of the ConfirmationDialog
clearUninstalling(r) ==
  /\ uninstalling[r]
  /\ uninstalling' = [uninstalling EXCEPT ![r] = FALSE]
  /\ rowCalls' = <<>>
  /\ lastRowEvent' = [type |-> "close", row |-> r]
  /\ UNCHANGED <<pack, supplied, menuVars>>

\* The caller re-renders the row with another status of the pack.
SetPackStatus(r, status) ==
  /\ status # pack[r].status
  /\ pack' = [pack EXCEPT ![r].status = status]
  /\ rowCalls' = <<>>
  /\ lastRowEvent' = [type |-> "props", row |-> r]
  /\ UNCHANGED <<supplied, uninstalling, menuVars>>

InitRows ==
  /\ MenuInit({[m \in Menus |-> <<>>]})
  /\ RowInit(UNION {Packs(r) : r \in Rows}, Callbacks)

NextRows ==
  \/ \E r \in Rows : handleInstall(r)
  \/ \E r \in Rows : handleUninstall(r)
  \/ \E r \in Rows : handleConfirmUninstall(r)
  \/ \E r \in Rows : clearUninstalling(r)
  \/ \E r \in Rows, status \in {"installed", "downloaded"} : SetPackStatus(r, status)

SpecRows == InitRows /\ [][NextRows]_vars

----------------------------------------------------------------------------
\* Vocabulary of the properties

Open(m) == isMenuShowing[m]
Closed(m) == ~isMenuShowing[m]

\* The latest event opened its menu by pointer / by keyboard.
PointerOpened == lastEvent.type = "click"
KeyboardOpened ==
  /\ lastEvent.type = "key"
  /\ lastEvent.key \in {"Enter", "Space"}
  /\ ~lastEvent.wasShowing

\* The latest event was key k pressed on a menu that was showing.
PressedWhileOpen(k) ==
  lastEvent.type = "key" /\ lastEvent.key = k /\ lastEvent.wasShowing

\* The latest event selected option i of its menu: a click on option i, or
\* Enter while focusedIndex = i, i an index of the option sequence.
\* (Neither event changes focusedIndex or menuOptions.)
Selected(i) ==
  \/ lastEvent.type = "option" /\ lastEvent.index = i
  \/ /\ PressedWhileOpen("Enter")
     /\ focusedIndex[lastEvent.menu] = Some(i)
     /\ InRange(i, NumOptions(lastEvent.menu))

TheCall(m, i) == [menu |-> m, index |-> i, value |-> menuOptions[m][i + 1].value]

----------------------------------------------------------------------------
\* C1: at most one instance is Open in every reachable state, and an event
\* that opens a menu while another menu's close callback is registered
\* leaves that other menu Closed.
C1_AtMostOneOpen ==
  /\ Cardinality({m \in Menus : Open(m)}) <= 1
  /\ (PointerOpened \/ KeyboardOpened) =>
       /\ Open(lastEvent.menu)
       /\ \A k \in Menus \ {lastEvent.menu} : Closed(k)

\* Menu B has just been opened while A was the open menu.
C1_Witness ==
  /\ (PointerOpened \/ KeyboardOpened)
  /\ lastEvent.menu = "B"
  /\ lastEvent.prevSlot = "A"
  /\ Open("B") /\ Closed("A")

\* C2: a click on option i, or Enter while focusedIndex = i, invokes option
\* i's onClick exactly once with option i's value, invokes nothing else, and
\* leaves the menu Closed.
C2_SelectionInvokesAndCloses ==
  \A i \in 0 .. MaxOptions - 1 :
    Selected(i) =>
      /\ calls = << TheCall(lastEvent.menu, i) >>
      /\ Closed(lastEvent.menu)

\* C3: Escape pressed while the menu is Open leaves it Closed and invokes no
\* option's onClick, whatever focusedIndex is.
C3_EscapeCloses ==
  PressedWhileOpen("Escape") => Closed(lastEvent.menu) /\ calls = <<>>

\* Escape has closed a menu whose focusedIndex was defined.
C3_Witness ==
  /\ PressedWhileOpen("Escape")
  /\ focusedIndex[lastEvent.menu] = Some(1)
  /\ Closed(lastEvent.menu)

\* C4: an outside interaction on an Open menu leaves it Closed and the
\* close-callback slot empty.
C4_OutsideCloses ==
  lastEvent.type = "outside" =>
    Closed(lastEvent.menu) /\ closeCurrentOpenContextMenu = NoMenu

C4_Witness ==
  /\ lastEvent.type = "outside"
  /\ lastEvent.wasShowing
  /\ lastEvent.prevSlot = lastEvent.menu
  /\ Closed(lastEvent.menu)

\* C5: focusedIndex, when defined, is a valid index into the current option
\* sequence, in every reachable state.
C5_FocusedIndexValid ==
  \A m \in Menus :
    IsDefined(focusedIndex[m]) => InRange(Val(focusedIndex[m]), NumOptions(m))

\* C6: in every state where the menu is Closed, focusedIndex is undefined.
C6_ClosedHasNoFocus ==
  \A m \in Menus : Closed(m) => focusedIndex[m] = Undefined

\* C7: while Open with n >= 1 options and focusedIndex = i defined,
\* ArrowDown or Tab sets focusedIndex to (i + 1) mod n and ArrowUp sets it to
\* (i - 1 + n) mod n; neither changes isOpen, the anchor or the slot.
C7_FocusWrap ==
  [][\A m \in Menus :
       LET n == NumOptions(m)
           i == Val(focusedIndex[m])
       IN (/\ lastEvent'.type = "key" /\ lastEvent'.menu = m
           /\ lastEvent'.key \in {"ArrowDown", "Tab", "ArrowUp"}
           /\ Open(m) /\ n >= 1 /\ IsDefined(focusedIndex[m]))
          => /\ lastEvent'.key \in {"ArrowDown", "Tab"} =>
                  focusedIndex'[m] = Some((i + 1) % n)
             /\ lastEvent'.key = "ArrowUp" =>
                  focusedIndex'[m] = Some((i - 1 + n) % n)
             /\ UNCHANGED <<isMenuShowing, virtualElement,
                            closeCurrentOpenContextMenu>>]_vars

C9_ObserverFollows ==
  \A m \in Menus : notified[m] = isMenuShowing[m]

\* Menu A has just been evicted by B opening, and its observer has been
\* told `false`.
C9_Witness ==
  /\ (PointerOpened \/ KeyboardOpened)
  /\ lastEvent.menu = "B"
  /\ lastEvent.prevSlot = "A"
  /\ Closed("A") /\ ~notified["A"]
  /\ Open("B") /\ notified["B"]

\* C10: when the selected option's onClick raises, the menu still ends
\* Closed and the slot is cleared.
C10_ThrowingHandlerStillCloses ==
  (lastEvent.threw /\ calls # <<>>) =>
    Closed(lastEvent.menu) /\ closeCurrentOpenContextMenu = NoMenu

\* C11: Enter pressed on an Open menu whose focusedIndex is defined but out
\* of range of the option sequence invokes no onClick and raises nothing.
C11_OutOfRangeEnterIsNoop ==
  (/\ PressedWhileOpen("Enter")
   /\ IsDefined(lastEvent.focusRead)
   /\ ~InRange(Val(lastEvent.focusRead), NumOptions(lastEvent.menu)))
  => calls = <<>> /\ ~lastEvent.threw

\* C12: when the caller supplies onClick, a primary click on the trigger
\* runs only the caller's handler: the menu is not opened, and isOpen,
\* focusedIndex, the anchor and the shared slot are all unchanged (so no
\* other open menu is closed).
C12_CallerOnClickOnly ==
  [][lastEvent'.type = "onClick"
       => /\ UNCHANGED <<isMenuShowing, focusedIndex, virtualElement,
                         closeCurrentOpenContextMenu>>
          /\ calls' = <<>>]_vars

\* The caller's handler ran on a closed trigger while the other menu was
\* open and registered; the other menu is still open.
C12_Witness ==
  /\ lastEvent.type = "onClick"
  /\ Closed(lastEvent.menu)
  /\ \E o \in Menus \ {lastEvent.menu} :
       Open(o) /\ closeCurrentOpenContextMenu = o /\ lastEvent.prevSlot = o

\* C13: in the rendered elements a divider stands immediately before option
\* i exactly when i >= 1 and option i-1's group differs from option i's
\* (undefined against a defined group counts as different); there is no
\* divider before option 0, none between options of equal group, and every
\* option is rendered once, in order.
C13_DividerExactlyOnGroupChange ==
  LET els  == optionElements["A"]
      opts == menuOptions["A"]
      optionAt == {p \in 1 .. Len(els) : els[p].kind = "option"}
  IN /\ Cardinality(optionAt) = Len(opts)
     /\ \A p \in optionAt :
          LET i == els[p].index
          IN /\ InRange(i, Len(opts))
             /\ Cardinality({q \in optionAt : q < p}) = i
             /\ (p > 1 /\ els[p - 1].kind = "divider")
                  <=> (i >= 1 /\ opts[i].group # opts[i + 1].group)
     /\ \A p \in 1 .. Len(els) :
          els[p].kind = "divider"
            => p < Len(els) /\ els[p + 1].kind = "option"

\* Five options with groups g1, g1, undefined, g2, g2 are rendered with
\* dividers before options 2 and 3 only.
C13_Witness ==
  /\ lastEvent.type = "props"
  /\ [k \in 1 .. Len(menuOptions["A"]) |-> menuOptions["A"][k].group]
       = <<"g1", "g1", NoGroup, "g2", "g2">>
  /\ [p \in 1 .. Len(optionElements["A"]) |-> optionElements["A"][p].kind]
       = <<"option", "option", "divider", "option", "divider", "option", "option">>

\* C14: the shared slot is empty exactly when no menu is Open, and a
\* non-empty slot holds the close callback of the one Open menu; every
\* opening has invoked the previously registered callback and registered
\* its own; every close by selection, outside interaction or Escape leaves
\* the slot empty.
C14_SlotTracksOpenMenu ==
  /\ closeCurrentOpenContextMenu = NoMenu <=> \A m \in Menus : Closed(m)
  /\ closeCurrentOpenContextMenu # NoMenu
       => /\ closeCurrentOpenContextMenu \in Menus
          /\ Open(closeCurrentOpenContextMenu)
          /\ \A m \in Menus \ {closeCurrentOpenContextMenu} : Closed(m)
  /\ (PointerOpened \/ KeyboardOpened)
       => /\ closeCurrentOpenContextMenu = lastEvent.menu
          /\ lastEvent.prevSlot \in Menus \ {lastEvent.menu}
               => Closed(lastEvent.prevSlot)
  /\ (/\ \/ lastEvent.type \in {"option", "outside"}
         \/ PressedWhileOpen("Enter")
         \/ PressedWhileOpen("Escape")
      /\ lastEvent.wasShowing
      /\ Closed(lastEvent.menu))
       => closeCurrentOpenContextMenu = NoMenu

\* An option of the open menu has been clicked, its callback has run, and
\* the slot that held the menu's close callback is empty.
C14_Witness ==
  /\ lastEvent.type = "option"
  /\ ~lastEvent.threw
  /\ lastEvent.prevSlot = lastEvent.menu
  /\ calls # <<>>
  /\ Closed(lastEvent.menu)
  /\ closeCurrentOpenContextMenu = NoMenu

\* C15: an instance's close empties the shared slot only when the slot
\* points at that instance; however A's close handlers interleave with B's
\* opening, no event of A empties a slot that holds B's callback while B is
\* Open, so an Open menu is always the one the slot points at.
C15_CloseClearsOnlyOwnSlot ==
  /\ (lastEvent.prevSlot # NoMenu /\ closeCurrentOpenContextMenu = NoMenu)
       => lastEvent.prevSlot = lastEvent.menu /\ lastEvent.wasShowing
  /\ \A b \in Menus :
       (lastEvent.prevSlot = b /\ lastEvent.menu # b /\ Open(b))
         => closeCurrentOpenContextMenu = b
  /\ \A b \in Menus : Open(b) => closeCurrentOpenContextMenu = b

\* B was opened while A was open; Escape was then pressed on A's trigger:
\* B is still Open and the slot still holds B's callback.
C15_Witness ==
  /\ lastEvent.type = "key" /\ lastEvent.key = "Escape"
  /\ lastEvent.menu = "A" /\ ~lastEvent.wasShowing
  /\ lastEvent.prevSlot = "B"
  /\ notified["A"] = FALSE /\ Open("B")
  /\ closeCurrentOpenContextMenu = "B"

\* The latest event closed its own menu / closed menu m by opening another.
ClosedItself == lastEvent.wasShowing /\ Closed(lastEvent.menu)
Evicted(m) == lastEvent.prevSlot = m /\ lastEvent.menu # m /\ Closed(m)

\* C16 (as claimed): a menu leaves Open only by an option click, Escape,
\* Enter when an option is focused, an outside interaction, or eviction by
\* another menu's opening; a key press other than Escape while Open with
\* focusedIndex undefined leaves the menu Open.
C16_ClosesOnlyWhenOptionFocused ==
  /\ ClosedItself
       => \/ lastEvent.type \in {"option", "outside"}
          \/ PressedWhileOpen("Escape")
          \/ PressedWhileOpen("Enter") /\ IsDefined(lastEvent.focusRead)
  /\ \A m \in Menus : Evicted(m) => (PointerOpened \/ KeyboardOpened)
  /\ \A k \in Keys \ {"Escape"} :
       (PressedWhileOpen(k) /\ focusedIndex[lastEvent.menu] = Undefined)
         => Open(lastEvent.menu)

\* C16 (amended): a menu leaves Open only by an option click, Escape,
\* Enter, an outside interaction, or eviction by another menu's opening;
\* Enter while Open with focusedIndex undefined invokes no onClick and
\* closes the menu; every key other than Escape and Enter leaves it Open.
C16_ClosesOnlyByListedEvents ==
  /\ ClosedItself
       => \/ lastEvent.type \in {"option", "outside"}
          \/ PressedWhileOpen("Escape")
          \/ PressedWhileOpen("Enter")
  /\ \A m \in Menus : Evicted(m) => (PointerOpened \/ KeyboardOpened)
  /\ (PressedWhileOpen("Enter") /\ lastEvent.focusRead = Undefined)
       => /\ Closed(lastEvent.menu)
          /\ calls = <<>>
          /\ closeCurrentOpenContextMenu = NoMenu
  /\ \A k \in Keys \ {"Escape", "Enter"} :
       PressedWhileOpen(k) => Open(lastEvent.menu)

\* Enter was pressed on a menu opened by pointer, with no option focused:
\* the menu is Closed and nothing was invoked.
C16_Witness ==
  /\ PressedWhileOpen("Enter")
  /\ lastEvent.focusRead = Undefined
  /\ NumOptions(lastEvent.menu) > 0
  /\ Closed(lastEvent.menu)
  /\ calls = <<>>

\* C17: Enter or Space pressed on the trigger of a Closed menu only opens
\* it: within that key event no option's onClick is invoked, nothing is
\* raised, focusedIndex is not advanced past 0 and the menu is not closed
\* again; afterwards the menu is Open with focusedIndex = 0 and registered
\* in the slot.
C17_KeyboardOpenOnlyOpens ==
  KeyboardOpened
    => /\ calls = <<>>
       /\ ~lastEvent.threw
       /\ Open(lastEvent.menu)
       /\ focusedIndex[lastEvent.menu] = Some(0)
       /\ closeCurrentOpenContextMenu = lastEvent.menu

\* Enter was pressed on the closed trigger of a menu with two options: it
\* is Open on option 0 and no option has been invoked.
C17_Witness ==
  /\ KeyboardOpened
  /\ lastEvent.key = "Enter"
  /\ NumOptions(lastEvent.menu) = 2
  /\ Open(lastEvent.menu)
  /\ focusedIndex[lastEvent.menu] = Some(0)
  /\ calls = <<>>

\* C18: a click handled by handleClick on the trigger of a menu that is
\* already Open does not toggle it closed: after the event the menu is
\* Open, its anchor is the new click coordinates, focusedIndex is unchanged
\* and the slot still holds this menu's callback; no option is invoked.
C18_ClickOnOpenMenuKeepsItOpen ==
  [][(lastEvent'.type = "click" /\ isMenuShowing[lastEvent'.menu])
       => LET m == lastEvent'.menu
          IN /\ closeCurrentOpenContextMenu = m
             /\ isMenuShowing'[m]
             /\ virtualElement'[m] = [x |-> lastEvent'.point.x, y |-> lastEvent'.point.y]
             /\ focusedIndex' = focusedIndex
             /\ closeCurrentOpenContextMenu' = m
             /\ calls' = <<>>]_vars

\* A menu opened by keyboard and moved to option 1 was clicked again at
\* another point: it is Open there, still on option 1, still registered.
C18_Witness ==
  /\ lastEvent.type = "click"
  /\ lastEvent.wasShowing
  /\ lastEvent.prevSlot = lastEvent.menu
  /\ lastEvent.point = [x |-> 50, y |-> 60]
  /\ virtualElement[lastEvent.menu] = [x |-> 50, y |-> 60]
  /\ Open(lastEvent.menu)
  /\ focusedIndex[lastEvent.menu] = Some(1)
  /\ closeCurrentOpenContextMenu = lastEvent.menu

\* C19: while Open with focusedIndex undefined (opened by pointer), arrow
\* navigation treats the missing index as 0: ArrowDown or Tab yields 1 when
\* there are at least 2 options and 0 otherwise, ArrowUp yields n - 1; the
\* first ArrowDown after a pointer open does not focus option 0 when n >= 2.
C19_UndefinedFocusCountsAsZero ==
  LET m == lastEvent.menu
      n == NumOptions(m)
  IN /\ ((PressedWhileOpen("ArrowDown") \/ PressedWhileOpen("Tab"))
           /\ lastEvent.focusRead = Undefined)
          => /\ focusedIndex[m] = Some(IF n >= 2 THEN 1 ELSE 0)
             /\ Open(m)
     /\ (PressedWhileOpen("ArrowUp") /\ lastEvent.focusRead = Undefined)
          => /\ focusedIndex[m] = Some(n - 1)
             /\ Open(m)

\* ArrowDown was pressed on a two-option menu opened by pointer: option 1,
\* not option 0, is focused.
C19_Witness ==
  /\ PressedWhileOpen("ArrowDown")
  /\ lastEvent.focusRead = Undefined
  /\ NumOptions(lastEvent.menu) = 2
  /\ focusedIndex[lastEvent.menu] = Some(1)

\* C20: for a pack that is not blessed the Uninstall button only sets
\* uninstalling; uninstallStickerPack(id, key) is invoked only by the
\* dialog's confirm action, which also resets uninstalling; closing the
\* dialog resets uninstalling without invoking it; only a blessed pack with
\* a supplied uninstallStickerPack is uninstalled by the button itself.
C20_UninstallNeedsConfirmation ==
  LET r == lastRowEvent.row
      t == lastRowEvent.type
      hasUninstall == "uninstallStickerPack" \in supplied[r]
      theCall == [fn |-> "uninstallStickerPack", packId |-> r, packKey |-> KeyOf(r)]
  IN /\ (t = "uninstall" /\ ~pack[r].isBlessed)
          => uninstalling[r] /\ rowCalls = <<>>
     /\ (t = "uninstall" /\ pack[r].isBlessed /\ ~hasUninstall)
          => uninstalling[r] /\ rowCalls = <<>>
     /\ (t = "uninstall" /\ pack[r].isBlessed /\ hasUninstall)
          => ~uninstalling[r] /\ rowCalls = << theCall >>
     /\ t = "confirm"
          => /\ ~uninstalling[r]
             /\ rowCalls = IF hasUninstall THEN << theCall >> ELSE <<>>
     /\ t = "close" => ~uninstalling[r] /\ rowCalls = <<>>
     /\ (\E k \in 1 .. Len(rowCalls) : rowCalls[k].fn = "uninstallStickerPack")
          => /\ rowCalls = << theCall >>
             /\ \/ t = "confirm"
                \/ t = "uninstall" /\ pack[r].isBlessed /\ hasUninstall

\* The dialog of a pack that is not blessed has been confirmed:
\* uninstallStickerPack was invoked with its id and key and the dialog is
\* gone.
C20_Witness ==
  /\ lastRowEvent.type = "confirm"
  /\ lastRowEvent.row = "p2"
  /\ ~pack["p2"].isBlessed
  /\ rowCalls = << [fn |-> "uninstallStickerPack", packId |-> "p2", packKey |-> "k2"] >>
  /\ ~uninstalling["p2"]

====
